---- MODULE Spec2Model ----
(***************************************************************************)
(* State-machine model of s_reality_scraper.py: the checkpointed ingestion *)
(* run (build), the reconciler (check), the row garbage collector          *)
(* (cleanup) and the file sweep (vacuum), over the CSV store, the          *)
(* checkpoint file, the raw JSON documents and the image folders.          *)
(*                                                                         *)
(* The remote catalog is environment state: it answers the listing and     *)
(* detail requests and may change between two commands.  Local I/O and    *)
(* transport faults are inputs chosen at the step where the code performs  *)
(* the operation.                                                          *)
(***************************************************************************)
EXTENDS Integers, Sequences, FiniteSets, TLC

VARIABLES
    catalog,          \* the remote site: result_size and the listing pages
    csv,              \* CSV_FILENAME on disk
    backup,           \* BACKUP_FILENAME on disk
    last_page_file,   \* LAST_PROCESSED_PAGE_FILENAME on disk
    json_files,       \* hash_ids that have a file JSON_DIR/<hash_id>.json
    image_dirs,       \* folders present under IMAGE_DIR
    pc,               \* position of the single process
    op,               \* the command main() was last started with
    result,           \* how the last command ended
    from_page,        \* scrape_items parameter
    hash_ids,         \* scrape_items local: ids already fetched
    page_count,       \* scrape_items local
    first_page,       \* scrape_items local
    page,             \* scrape_items loop variable
    estates,          \* scrape_items local: the listing of the current page
    k,                \* position of the inner loop in estates
    added_item_count, \* scrape_items local
    tor_restarts,     \* history: calls of restart_tor made by the run
    last_request,     \* history: the hash_id whose detail the last step requested
    runs_done         \* history: complete runs counted so far (None: not counted)

vars == <<catalog, csv, backup, last_page_file, json_files, image_dirs, pc, op,
          result, from_page, hash_ids, page_count, first_page, page, estates, k,
          added_item_count, tor_restarts, last_request, runs_done>>

locals == <<from_page, hash_ids, page_count, first_page, page, estates, k,
            added_item_count, tor_restarts, last_request>>
disk == <<csv, backup, last_page_file, json_files, image_dirs>>

----------------------------------------------------------------------------
(* Bounds of the model *)

MaxId == 2
MaxPages == 2
MaxPerPage == 2
MaxRuns == 2
\* rows of the store beyond which a run with a failed read is not started
MaxStoredPage == 120
MaxRows == 2 * MaxId + 2

(* Program constants *)

ITEMS_PER_PAGE == 60
REMOVED_MARK == "removed"
IMAGE_DIR == "img"

(* Python None for the optional integers (from_page, page_count) *)
None == -1

(* The checkpoint file: absent, or the text it holds (a sequence of
   characters); a failed write leaves the file open('w') truncated *)
FileAbsent == [exists |-> FALSE, text |-> <<>>]
FileCorrupt == [exists |-> TRUE, text |-> <<>>]

HashIds == 1..MaxId

----------------------------------------------------------------------------
(* Pure functions of the program *)

\* COLUMNS as the header row: each cell holds the column's name
COLUMNS == [link |-> <<"Link">>, removed |-> "Removed"]

\* Item link as its path segments below BASE_URL; the last one is the hash_id
get_item_link(hash_id) == <<"detail", "prodej", "byt", "2+kk", "praha", hash_id>>

hash_id_from_link(item_link) == item_link[Len(item_link)]

get_image_folder(item_link) == <<IMAGE_DIR>> \o item_link

get_hash_ids(items) == {hash_id_from_link(items[i].link) : i \in 1..Len(items)}

get_image_folders(items) == {get_image_folder(items[i].link) : i \in 1..Len(items)}

\* get_item: the row for a document, or no row when a required block is missing
get_item(hash_id) == [link |-> get_item_link(hash_id), removed |-> ""]

\* get_page_count with floor instead of ceil
get_page_count_floor(result_size) == result_size \div ITEMS_PER_PAGE

\* ceil(result_size / ITEMS_PER_PAGE)
get_page_count(result_size) == (result_size + ITEMS_PER_PAGE - 1) \div ITEMS_PER_PAGE

NoFile == [exists |-> FALSE, lines |-> <<>>]

\* load_items: absent file gives []; otherwise the first line is skipped
load_items(file) ==
    IF ~file.exists \/ file.lines = <<>> THEN <<>> ELSE Tail(file.lines)

\* load_items when reading fails (OSError, or a row with a missing column)
\* after n rows: the except branches return the rows read so far
load_items_partial(file, n) == SubSeq(load_items(file), 1, n)

\* save_item: one csv row written in 'w' mode (with the header) or 'a' mode
save_item(file, item, first_item) ==
    IF first_item
    THEN [exists |-> TRUE, lines |-> <<COLUMNS, item>>]
    ELSE [exists |-> TRUE, lines |-> Append(file.lines, item)]

\* save_items: save_item per row, the first one in 'w' mode; fail_at is the
\* index whose save_item fails (Len(items) + 1: none fails)
RECURSIVE save_rows(_, _, _, _)
save_rows(file, items, i, fail_at) ==
    IF i > Len(items) \/ i = fail_at THEN file
    ELSE save_rows(save_item(file, items[i], i = 1), items, i + 1, fail_at)

save_items(file, items, fail_at) ==
    [file |-> save_rows(file, items, 1, fail_at), ok |-> fail_at > Len(items)]

Digits == <<"0", "1", "2", "3", "4", "5", "6", "7", "8", "9">>

RECURSIVE str(_)
\* str(page): the decimal digits of a non-negative integer
str(n) ==
    IF n < 10 THEN <<Digits[n + 1]>>
    ELSE str(n \div 10) \o <<Digits[(n % 10) + 1]>>

\* int(text) does not raise ValueError: the text is a run of decimal digits
int_ok(text) ==
    /\ text # <<>>
    /\ \A i \in 1..Len(text) : \E d \in 1..10 : text[i] = Digits[d]

RECURSIVE int(_)
\* int(text) of a run of decimal digits
int(text) ==
    IF text = <<>> THEN 0
    ELSE 10 * int(SubSeq(text, 1, Len(text) - 1))
         + (CHOOSE d \in 0..9 : text[Len(text)] = Digits[d + 1])

\* load_last_page without the ValueError handler: the exception leaves no page
load_last_page_raises(content, read_ok) ==
    IF ~content.exists \/ ~read_ok THEN 0
    ELSE IF int_ok(content.text) THEN int(content.text) ELSE None

\* load_last_page: 0 when absent, unreadable or unparsable
load_last_page(content, read_ok) ==
    IF ~content.exists \/ ~read_ok \/ ~int_ok(content.text) THEN 0
    ELSE int(content.text)

\* save_last_page: fault is "none", "open" (nothing written) or "write" (truncated)
save_last_page(content, p, fault) ==
    CASE fault = "none" -> [exists |-> TRUE, text |-> str(p)]
      [] fault = "open" -> content
      [] OTHER -> FileCorrupt

\* USE_TOR of scraping_utils: the runs go through the identity rotator
USE_TOR == TRUE

\* scrape_items with restart_tor before every page of the loop
rotate_before_every_page(p, first) == USE_TOR

\* scrape_items, the page loop: restart_tor is called before page p
rotate_before_page(p, first) == USE_TOR /\ p # first

\* scrape_items with "load_last_page()" instead of "load_last_page() + 1"
FirstPage_SamePage(fp, content, read_ok) ==
    IF fp # None THEN fp ELSE load_last_page(content, read_ok)

\* scrape_items: first_page
FirstPage(fp, content, read_ok) ==
    IF fp # None THEN fp ELSE load_last_page(content, read_ok) + 1

----------------------------------------------------------------------------
(* The remote catalog *)

\* A listing page: up to MaxPerPage ids, none twice on the same page
PageContents ==
    {s \in UNION {[1..n -> HashIds] : n \in 0..MaxPerPage} :
        \A i, j \in 1..Len(s) : s[i] = s[j] => i = j}

ResultSizes ==
    {ITEMS_PER_PAGE * n : n \in 0..(MaxPages - 1)}
        \cup {ITEMS_PER_PAGE * (MaxPages - 1) + 1}

\* The listing with the pages beyond the page count empty
Trim(result_size, pages) ==
    [p \in 1..MaxPages |->
        IF p > get_page_count(result_size) THEN <<>> ELSE pages[p]]

\* result_size: the reported number of results; estates[p]: the items the
\* listing returns for page p
Catalogs ==
    {c \in [result_size : ResultSizes, estates : [1..MaxPages -> PageContents]] :
        c.estates = Trim(c.result_size, c.estates)}

\* get_category_json(page)['_embedded']['estates'] as hash_ids
get_category_json(cat, p) == IF p \in 1..MaxPages THEN cat.estates[p] ELSE <<>>

\* scrape_hash_ids: fetch_fault "count": the page-count lookup fails (None is
\* returned); "page": the listing request of fail_page fails, and indexing
\* the None response raises; otherwise the ids of pages 1..page_count
RECURSIVE collect_ids(_, _, _)
collect_ids(cat, p, last) ==
    IF p > last THEN {} ELSE
        {get_category_json(cat, p)[i] : i \in 1..Len(get_category_json(cat, p))}
            \cup collect_ids(cat, p + 1, last)

\* scrape_hash_ids returning the ids collected so far when a page fails
scrape_hash_ids_partial(cat, fetch_fault, fail_page) ==
    LET count == get_page_count(cat.result_size) IN
    CASE fetch_fault = "count" -> [status |-> "none", ids |-> {}]
      [] fetch_fault = "page" /\ fail_page \in 1..count ->
            [status |-> "ok", ids |-> collect_ids(cat, 1, fail_page - 1)]
      [] OTHER -> [status |-> "ok", ids |-> collect_ids(cat, 1, count)]

scrape_hash_ids(cat, fetch_fault, fail_page) ==
    LET count == get_page_count(cat.result_size) IN
    CASE fetch_fault = "count" -> [status |-> "none", ids |-> {}]
      [] fetch_fault = "page" /\ fail_page \in 1..count -> [status |-> "raise", ids |-> {}]
      [] OTHER -> [status |-> "ok", ids |-> collect_ids(cat, 1, count)]

\* check_item: listed, or the confirmatory detail request answers
check_item(hash_id, live_ids, answering) ==
    hash_id \in live_ids \/ hash_id \in answering

----------------------------------------------------------------------------
(* Operations on the disk *)

\* main, build --restart without the removal of the checkpoint
clear_progress_keep_checkpoint(cp, file, bak, fault) ==
    CASE fault = "rm_backup" /\ file.exists /\ bak.exists ->
            [ok |-> FALSE, cp |-> cp, csv |-> file, backup |-> bak]
      [] fault = "rename" /\ file.exists ->
            [ok |-> FALSE, cp |-> cp, csv |-> file, backup |-> NoFile]
      [] OTHER ->
            [ok |-> TRUE, cp |-> cp, csv |-> NoFile,
             backup |-> IF file.exists THEN file ELSE bak]

\* main, build --restart: the checkpoint is removed, then the store is moved
\* to the backup; fault names the filesystem call that fails
clear_progress(cp, file, bak, fault) ==
    CASE fault = "rm_checkpoint" /\ cp # FileAbsent ->
            [ok |-> FALSE, cp |-> cp, csv |-> file, backup |-> bak]
      [] fault = "rm_backup" /\ file.exists /\ bak.exists ->
            [ok |-> FALSE, cp |-> FileAbsent, csv |-> file, backup |-> bak]
      [] fault = "rename" /\ file.exists ->
            [ok |-> FALSE, cp |-> FileAbsent, csv |-> file, backup |-> NoFile]
      [] OTHER ->
            [ok |-> TRUE, cp |-> FileAbsent, csv |-> NoFile,
             backup |-> IF file.exists THEN file ELSE bak]

\* save_item_comprehensive with get_item called before save_item_json and
\* save_item_images: a document that cannot be transformed leaves no file
save_item_comprehensive_transform_first(hash_id, first_item, fault, file, jsons, dirs) ==
    LET folder == get_image_folder(get_item_link(hash_id)) IN
    CASE fault \in {"fetch", "raw", "transform"} ->
            [ret |-> "false", csv |-> file, json_files |-> jsons, image_dirs |-> dirs]
      [] fault = "images_raise" ->
            [ret |-> "raise", csv |-> file, json_files |-> jsons \cup {hash_id},
             image_dirs |-> dirs \cup {folder}]
      [] fault \in {"images", "csv"} ->
            [ret |-> "false", csv |-> file, json_files |-> jsons \cup {hash_id},
             image_dirs |-> dirs \cup {folder}]
      [] OTHER ->
            [ret |-> "true", csv |-> save_item(file, get_item(hash_id), first_item),
             json_files |-> jsons \cup {hash_id}, image_dirs |-> dirs \cup {folder}]

\* save_item_comprehensive: detail request, raw document, images, transform,
\* csv row.  ret is "true", "false" or "raise" (an exception leaves the call)
save_item_comprehensive(hash_id, first_item, fault, file, jsons, dirs) ==
    LET folder == get_image_folder(get_item_link(hash_id)) IN
    CASE fault = "fetch" ->
            [ret |-> "false", csv |-> file, json_files |-> jsons, image_dirs |-> dirs]
      [] fault = "raw" ->
            [ret |-> "false", csv |-> file, json_files |-> jsons, image_dirs |-> dirs]
      [] fault = "images" ->
            [ret |-> "false", csv |-> file, json_files |-> jsons \cup {hash_id},
             image_dirs |-> dirs \cup {folder}]
      [] fault = "images_raise" ->
            [ret |-> "raise", csv |-> file, json_files |-> jsons \cup {hash_id},
             image_dirs |-> dirs \cup {folder}]
      [] fault = "transform" ->
            [ret |-> "false", csv |-> file, json_files |-> jsons \cup {hash_id},
             image_dirs |-> dirs \cup {folder}]
      [] fault = "csv" ->
            [ret |-> "false", csv |-> file, json_files |-> jsons \cup {hash_id},
             image_dirs |-> dirs \cup {folder}]
      [] OTHER ->
            [ret |-> "true", csv |-> save_item(file, get_item(hash_id), first_item),
             json_files |-> jsons \cup {hash_id}, image_dirs |-> dirs \cup {folder}]

\* check_items, the loop: the removal mark is set on every loaded row that
\* check_item rejects
mark_items(items, live_ids, answering) ==
    [i \in 1..Len(items) |->
        IF check_item(hash_id_from_link(items[i].link), live_ids, answering)
        THEN items[i]
        ELSE [items[i] EXCEPT !.removed = REMOVED_MARK]]

\* clean_csv, the loop: rows carrying the removal mark are deleted from the list
RECURSIVE drop_removed(_)
drop_removed(items) ==
    IF items = <<>> THEN <<>>
    ELSE IF Head(items).removed = REMOVED_MARK THEN drop_removed(Tail(items))
    ELSE <<Head(items)>> \o drop_removed(Tail(items))

----------------------------------------------------------------------------
(* Initial state: nothing on disk, the process not started *)

NoLocals ==
    /\ from_page' = None
    /\ hash_ids' = {}
    /\ page_count' = None
    /\ first_page' = 0
    /\ page' = 0
    /\ estates' = <<>>
    /\ k' = 0
    /\ added_item_count' = 0
    /\ tor_restarts' = 0
    /\ last_request' = None

InitWith(count) ==
    /\ catalog \in Catalogs
    /\ csv = NoFile
    /\ backup = NoFile
    /\ last_page_file = FileAbsent
    /\ json_files = {}
    /\ image_dirs = {}
    /\ pc = "idle"
    /\ op = "none"
    /\ result = "none"
    /\ from_page = None
    /\ hash_ids = {}
    /\ page_count = None
    /\ first_page = 0
    /\ page = 0
    /\ estates = <<>>
    /\ k = 0
    /\ added_item_count = 0
    /\ tor_restarts = 0
    /\ last_request = None
    /\ runs_done = count

Init == InitWith(None)

BuildFaults == {"none", "rm_checkpoint", "rm_backup", "rename"}
StartFaults == {"none", "tor", "count", "read"}
PageFaults == {"none", "tor", "fetch"}
ItemFaults == {"none", "fetch", "raw", "images", "images_raise", "transform", "csv"}
WriteFaults == {"none", "open", "write"}
FetchFaults == {"none", "count", "page"}

\* The command ends: the process is gone, its locals with it
Finish(how) ==
    /\ pc' = "idle"
    /\ result' = how
    /\ NoLocals

----------------------------------------------------------------------------
(* build *)

\* main, the build branch up to the call of scrape_items
MainBuild(restart, update, fault) ==
    /\ pc = "idle"
    /\ restart \/ fault = "none"
    /\ op' = "build"
    /\ LET r == IF restart
                THEN clear_progress(last_page_file, csv, backup, fault)
                ELSE [ok |-> TRUE, cp |-> last_page_file, csv |-> csv,
                      backup |-> backup]
       IN /\ last_page_file' = r.cp
          /\ csv' = r.csv
          /\ backup' = r.backup
          /\ IF r.ok
             THEN /\ pc' = "scrape"
                  /\ result' = "running"
                  /\ from_page' = IF update THEN 1 ELSE None
                  /\ UNCHANGED <<hash_ids, page_count, first_page, page, estates,
                                 k, added_item_count, tor_restarts,
                                 last_request>>
             ELSE Finish("failed")
    /\ UNCHANGED <<catalog, json_files, image_dirs, runs_done>>

\* scrape_items up to the page loop; loaded is what load_items returns
ScrapeStartFrom(loaded, fault) ==
    /\ pc = "scrape"
    /\ fault = "tor" => USE_TOR
    /\ fault = "read" => (from_page = None /\ last_page_file.exists)
    /\ IF fault \in {"tor", "count"}
       THEN Finish("failed")
       ELSE /\ hash_ids' = get_hash_ids(loaded)
            /\ added_item_count' = 0
            /\ tor_restarts' = IF USE_TOR THEN 1 ELSE 0
            /\ last_request' = None
            /\ page_count' = get_page_count(catalog.result_size)
            /\ first_page' = FirstPage(from_page, last_page_file, fault # "read")
            /\ page' = first_page'
            /\ pc' = "paging"
            /\ UNCHANGED <<from_page, estates, k, result>>
    /\ UNCHANGED <<catalog, disk, op, runs_done>>

ScrapeStart(fault) == ScrapeStartFrom(load_items(csv), fault)

\* scrape_items up to the page loop when load_items fails after n rows
ScrapeStartPartial(n) ==
    /\ n < Len(load_items(csv))
    /\ Len(csv.lines) + MaxId <= MaxRows
    /\ ScrapeStartFrom(load_items_partial(csv, n), "none")

\* one turn of the page loop up to the item loop
ScrapePage(fault) ==
    /\ pc = "paging"
    /\ page <= page_count
    /\ fault = "tor" => rotate_before_page(page, first_page)
    /\ IF fault = "tor" THEN Finish("failed")
       ELSE IF fault = "fetch" THEN Finish("crashed")
       ELSE /\ tor_restarts' = IF rotate_before_page(page, first_page)
                               THEN tor_restarts + 1 ELSE tor_restarts
            /\ last_request' = None
            /\ estates' = get_category_json(catalog, page)
            /\ k' = 1
            /\ pc' = "items"
            /\ UNCHANGED <<from_page, hash_ids, page_count, first_page, page,
                           added_item_count, result>>
    /\ UNCHANGED <<catalog, disk, op, runs_done>>

\* scrape_items requesting the detail of every listed item
requests_detail_always(hash_id, index) == TRUE

\* scrape_items, the item loop: "if hash_id in hash_ids: continue"
requests_detail(hash_id, index) == hash_id \notin index

\* one turn of the item loop
ScrapeItem(fault) ==
    /\ pc = "items"
    /\ k <= Len(estates)
    /\ LET hash_id == estates[k]
           first_item == (page = 1 /\ estates[k] = estates[1])
           r == save_item_comprehensive(hash_id, first_item, fault, csv,
                                        json_files, image_dirs)
       IN IF ~requests_detail(hash_id, hash_ids)
          THEN /\ fault = "none"
               /\ k' = k + 1
               /\ last_request' = None
               /\ UNCHANGED <<csv, json_files, image_dirs, pc, result, from_page,
                              hash_ids, page_count, first_page, page, estates,
                              added_item_count, tor_restarts>>
          ELSE /\ csv' = r.csv
               /\ json_files' = r.json_files
               /\ image_dirs' = r.image_dirs
               /\ IF r.ret = "raise"
                  THEN Finish("crashed")
                  ELSE /\ k' = k + 1
                       /\ last_request' = hash_id
                       /\ hash_ids' = IF r.ret = "true"
                                      THEN hash_ids \cup {hash_id} ELSE hash_ids
                       /\ added_item_count' = IF r.ret = "true"
                                              THEN added_item_count + 1
                                              ELSE added_item_count
                       /\ UNCHANGED <<pc, result, from_page, page_count,
                                      first_page, page, estates, tor_restarts>>
    /\ UNCHANGED <<catalog, backup, last_page_file, op, runs_done>>

\* the end of a page: save_last_page(page), its result ignored
SaveLastPage(fault) ==
    /\ pc = "items"
    /\ k > Len(estates)
    /\ last_page_file' = save_last_page(last_page_file, page, fault)
    /\ page' = page + 1
    /\ pc' = "paging"
    /\ estates' = <<>>
    /\ k' = 0
    /\ last_request' = None
    /\ UNCHANGED <<catalog, csv, backup, json_files, image_dirs, op, result,
                   from_page, hash_ids, page_count, first_page, added_item_count,
                   tor_restarts, runs_done>>

\* the page loop is over: scrape_items returns True
ScrapeDone ==
    /\ pc = "paging"
    /\ page > page_count
    /\ Finish("ok")
    /\ runs_done' = IF runs_done = None \/ runs_done = MaxRuns
                    THEN runs_done ELSE runs_done + 1
    /\ UNCHANGED <<catalog, disk, op>>

\* SIGINT: sigint_handler ends the process wherever it is
Interrupt ==
    /\ pc # "idle"
    /\ Finish("interrupted")
    /\ UNCHANGED <<catalog, disk, op, runs_done>>

----------------------------------------------------------------------------
(* check, cleanup, vacuum *)

\* check_items: the live ids, then every loaded row checked, then save_items;
\* loaded is what load_items returns
CheckItemsFrom(loaded, fetch_fault, fail_page, answering, fail_at) ==
    /\ pc = "idle"
    /\ op' = "check"
    /\ LET live == scrape_hash_ids(catalog, fetch_fault, fail_page)
           items == mark_items(loaded, live.ids, answering)
           saved == save_items(csv, items, fail_at)
       IN IF live.status = "ok"
          THEN /\ fail_at \in 1..(Len(items) + 1)
               /\ csv' = saved.file
               /\ result' = IF saved.ok THEN "ok" ELSE "failed"
          ELSE /\ answering = {}
               /\ fail_at = 1
               /\ csv' = csv
               /\ result' = IF live.status = "none" THEN "failed" ELSE "crashed"
    /\ UNCHANGED runs_done
    /\ UNCHANGED <<catalog, backup, last_page_file, json_files, image_dirs, pc,
                   locals>>

CheckItems(fetch_fault, fail_page, answering, fail_at) ==
    CheckItemsFrom(load_items(csv), fetch_fault, fail_page, answering, fail_at)

\* check_items when load_items fails after n rows
CheckItemsPartial(n, answering) ==
    /\ n < Len(load_items(csv))
    /\ CheckItemsFrom(load_items_partial(csv, n), "none", 0, answering, n + 1)

\* clean_csv: the marked rows dropped from the loaded list, then save_items;
\* loaded is what load_items returns
CleanCsvFrom(loaded, fail_at) ==
    /\ pc = "idle"
    /\ op' = "cleanup"
    /\ LET items == drop_removed(loaded)
           saved == save_items(csv, items, fail_at)
       IN /\ fail_at \in 1..(Len(items) + 1)
          /\ csv' = saved.file
          /\ result' = IF saved.ok THEN "ok" ELSE "failed"
    /\ UNCHANGED runs_done
    /\ UNCHANGED <<catalog, backup, last_page_file, json_files, image_dirs, pc,
                   locals>>

CleanCsv(fail_at) == CleanCsvFrom(load_items(csv), fail_at)

\* clean_csv when load_items fails after n rows
CleanCsvPartial(n) ==
    /\ n < Len(load_items(csv))
    /\ CleanCsvFrom(load_items_partial(csv, n),
                    Len(drop_removed(load_items_partial(csv, n))) + 1)

\* clean_files: raw documents and image folders without a loaded row are
\* deleted; json_fail and dir_fail are the deletions that fail; loaded is
\* what load_items returns
CleanFilesFrom(loaded, json_fail, dir_fail) ==
    /\ pc = "idle"
    /\ op' = "vacuum"
    /\ LET items == loaded
           valid_ids == get_hash_ids(items)
           valid_dirlist == get_image_folders(items)
       IN /\ json_fail \subseteq json_files \ valid_ids
          /\ dir_fail \subseteq image_dirs \ valid_dirlist
          /\ json_files' = {h \in json_files : h \in valid_ids \/ h \in json_fail}
          /\ image_dirs' = {d \in image_dirs : d \in valid_dirlist \/ d \in dir_fail}
    /\ result' = "ok"
    /\ UNCHANGED runs_done
    /\ UNCHANGED <<catalog, csv, backup, last_page_file, pc, locals>>

\* clean_files leaving its loops at the first deletion that fails
CleanFiles_stop_at_failure(json_fail, dir_fail) ==
    IF json_fail = {} /\ dir_fail = {}
    THEN CleanFilesFrom(load_items(csv), json_fail, dir_fail)
    ELSE /\ pc = "idle"
         /\ op' = "vacuum"
         /\ json_fail \subseteq json_files \ get_hash_ids(load_items(csv))
         /\ dir_fail \subseteq image_dirs \ get_image_folders(load_items(csv))
         /\ json_files' = IF json_fail = {}
                          THEN json_files \cap get_hash_ids(load_items(csv))
                          ELSE json_files
         /\ image_dirs' = image_dirs
         /\ result' = "ok"
         /\ UNCHANGED runs_done
         /\ UNCHANGED <<catalog, csv, backup, last_page_file, pc, locals>>

CleanFiles(json_fail, dir_fail) ==
    CleanFilesFrom(load_items(csv), json_fail, dir_fail)

\* clean_files when load_items fails after n rows
CleanFilesPartial(n) ==
    /\ n < Len(load_items(csv))
    /\ CleanFilesFrom(load_items_partial(csv, n), {}, {})

----------------------------------------------------------------------------
(* The environment *)

\* The site changes between two commands: the reported result size changes
\* (items appear or disappear) ...
ChangeResultSize(result_size) ==
    /\ pc = "idle"
    /\ result_size # catalog.result_size
    /\ catalog' = [result_size |-> result_size,
                   estates |-> Trim(result_size, catalog.estates)]
    /\ UNCHANGED <<disk, pc, op, result, locals, runs_done>>

\* ... or the listing of one page changes (items appear, disappear, move)
ChangeListing(p, listing) ==
    /\ pc = "idle"
    /\ p <= get_page_count(catalog.result_size)
    /\ listing # catalog.estates[p]
    /\ catalog' = [catalog EXCEPT !.estates[p] = listing]
    /\ UNCHANGED <<disk, pc, op, result, locals, runs_done>>

----------------------------------------------------------------------------

BuildNext ==
    \/ \E restart, update \in BOOLEAN, fault \in BuildFaults :
          MainBuild(restart, update, fault)
    \/ \E fault \in StartFaults : ScrapeStart(fault)
    \/ \E fault \in PageFaults : ScrapePage(fault)
    \/ \E fault \in ItemFaults : ScrapeItem(fault)
    \/ \E fault \in WriteFaults : SaveLastPage(fault)
    \/ ScrapeDone
    \/ Interrupt

SiteNext ==
    \/ \E result_size \in ResultSizes : ChangeResultSize(result_size)
    \/ \E p \in 1..MaxPages, listing \in PageContents : ChangeListing(p, listing)

PassNext ==
    \/ \E fetch_fault \in FetchFaults, fail_page \in 0..MaxPages,
          answering \in SUBSET HashIds, fail_at \in 1..(2 * MaxId + 3) :
          CheckItems(fetch_fault, fail_page, answering, fail_at)
    \/ \E fail_at \in 1..(2 * MaxId + 3) : CleanCsv(fail_at)

SweepNext ==
    \E json_fail \in SUBSET HashIds,
       dir_fail \in SUBSET {get_image_folder(get_item_link(h)) : h \in HashIds} :
       CleanFiles(json_fail, dir_fail)

\* Every command with every fault, and the site changing between commands
Next == BuildNext \/ PassNext \/ SweepNext \/ SiteNext

Spec == Init /\ [][Next]_vars

\* build runs with every fault, over a site that changes between them
SpecBuild == Init /\ [][BuildNext \/ SiteNext]_vars

\* build runs in which only detail requests fail, check and cleanup passes
\* with every fault, over a site that changes between them
QuietBuildNext ==
    \/ \E update \in BOOLEAN : MainBuild(FALSE, update, "none")
    \/ ScrapeStart("none")
    \/ ScrapePage("none")
    \/ \E fault \in {"none", "fetch"} : ScrapeItem(fault)
    \/ SaveLastPage("none")
    \/ ScrapeDone

SpecCheck == Init /\ [][QuietBuildNext \/ PassNext \/ SiteNext]_vars

\* build runs in which only the transform of an item fails, check, cleanup
\* and vacuum passes with every fault, over a site that changes between them
SweepBuildNext ==
    \/ \E update \in BOOLEAN : MainBuild(FALSE, update, "none")
    \/ ScrapeStart("none")
    \/ ScrapePage("none")
    \/ \E fault \in {"none", "transform"} : ScrapeItem(fault)
    \/ SaveLastPage("none")
    \/ ScrapeDone

SpecSweep == Init /\ [][SweepBuildNext \/ PassNext \/ SweepNext \/ SiteNext]_vars

\* build runs in which only detail requests fail, over a site that does not
\* change
SpecRetry == Init /\ [][QuietBuildNext]_vars

\* build, check and cleanup in which only reading the store fails, over a
\* site that changes between them
LoadNext ==
    \/ \E update \in BOOLEAN : MainBuild(FALSE, update, "none")
    \/ ScrapeStart("none")
    \/ \E n \in 0..MaxRows : ScrapeStartPartial(n)
    \/ ScrapePage("none")
    \/ ScrapeItem("none")
    \/ SaveLastPage("none")
    \/ ScrapeDone
    \/ \E answering \in SUBSET HashIds :
          CheckItems("none", 0, answering, Len(load_items(csv)) + 1)
    \/ \E n \in 0..MaxRows, answering \in SUBSET HashIds :
          CheckItemsPartial(n, answering)
    \/ CleanCsv(Len(drop_removed(load_items(csv))) + 1)
    \/ \E n \in 0..MaxRows : CleanCsvPartial(n)

SpecLoad == Init /\ [][LoadNext \/ SiteNext]_vars

\* build runs, counted, without any fault over a site that does not change
\* and on which the documents of MalformedIds lack a required block
MalformedIds == {1}

IdemItemFault ==
    IF pc = "items" /\ k <= Len(estates) /\ estates[k] \in MalformedIds
        /\ estates[k] \notin hash_ids
    THEN "transform" ELSE "none"

IdemNext ==
    \/ \E update \in BOOLEAN : MainBuild(FALSE, update, "none")
    \/ ScrapeStart("none")
    \/ ScrapePage("none")
    \/ ScrapeItem(IdemItemFault)
    \/ SaveLastPage("none")
    \/ ScrapeDone

SpecIdem == InitWith(0) /\ [][IdemNext]_vars

----------------------------------------------------------------------------
(* Vocabulary of the properties *)

\* The data rows of a store file: every line that is not the header row
DataRows(file) == SelectSeq(file.lines, LAMBDA line : line # COLUMNS)

RowIds(file) == get_hash_ids(DataRows(file))

InRun == pc \in {"paging", "items"}

\* This step of the item loop appends the row of hash_id h
ItemSaved(h) ==
    /\ pc = "items"
    /\ k <= Len(estates)
    /\ estates[k] = h
    /\ h \notin hash_ids
    /\ h \in hash_ids'

\* The checkpoint file holds a page number
Stored(content) == content.exists /\ int_ok(content.text)

\* The page load_last_page reads from a checkpoint file that can be read
StoredPage(content) == IF Stored(content) THEN int(content.text) ELSE 0

----------------------------------------------------------------------------
(* C1 *)

\* C1: over a site that does not change, and without any fault, a run that
\* follows a complete run (resumed or started at page 1 by --update) appends
\* no row.
C1_SecondRunAddsNothing ==
    (runs_done >= 1 /\ InRun) => added_item_count = 0

----------------------------------------------------------------------------
(* C2 *)

\* C2: a run without the from_page override starts at the stored page + 1,
\* and when it resumes after a written checkpoint (first page 2 or more) no
\* hash_id that already has a row in the store is appended again.
C2_ResumeNeverReappends ==
    [][ /\ (ScrapeStart("none") /\ from_page = None /\ pc' = "paging")
            => page' = StoredPage(last_page_file) + 1
        /\ \A h \in HashIds :
            (ItemSaved(h) /\ from_page = None /\ first_page >= 2)
                => h \notin RowIds(csv) ]_vars

----------------------------------------------------------------------------
(* C3 *)

\* C3: no two rows of the store have the same hash_id.
C3_UniqueRows ==
    \A i, j \in 1..Len(DataRows(csv)) :
        hash_id_from_link(DataRows(csv)[i].link)
            = hash_id_from_link(DataRows(csv)[j].link) => i = j

----------------------------------------------------------------------------
(* C4 *)

\* C4: a step of the item loop never removes a row: every row of the store
\* before the step is a row of the store after it.
C4_AppendKeepsRows ==
    [][ (pc = "items" /\ op = "build")
            => \A i \in 1..Len(DataRows(csv)) :
                  \E j \in 1..Len(DataRows(csv')) :
                      DataRows(csv')[j] = DataRows(csv)[i] ]_vars

----------------------------------------------------------------------------
(* C5 *)

----------------------------------------------------------------------------
(* C6 *)

\* C6: whenever the store file is non-empty its first line is the header,
\* and load_items returns every row that was appended.
C6_HeaderFirst ==
    (csv.exists /\ csv.lines # <<>>)
        => (csv.lines[1] = COLUMNS /\ load_items(csv) = DataRows(csv))

----------------------------------------------------------------------------
(* C7 *)

\* C7: when a stage fails for an item that is not in the index, the run goes
\* on with the next item of the same page, the store has the rows it had and
\* the index is unchanged.
C7_FailedItemIsSkipped ==
    [][ \A fault \in ItemFaults \ {"none"} :
            (ScrapeItem(fault) /\ estates[k] \notin hash_ids)
                => /\ pc' = "items"
                   /\ k' = k + 1
                   /\ page' = page
                   /\ estates' = estates
                   /\ DataRows(csv') = DataRows(csv)
                   /\ hash_ids' = hash_ids ]_vars

----------------------------------------------------------------------------
(* C8 *)

\* The ids the listing of the site shows on some page
Listed == collect_ids(catalog, 1, get_page_count(catalog.result_size))

\* C8: when the page-count lookup or the request of a listing page fails,
\* check_items ends in failure and the store file is what it was.
C8_FailedLookupKeepsStore ==
    [][ \A fetch_fault \in {"count", "page"}, fail_page \in 0..MaxPages,
           answering \in SUBSET HashIds, fail_at \in 1..(2 * MaxId + 3) :
            ( /\ CheckItems(fetch_fault, fail_page, answering, fail_at)
              /\ \/ fetch_fault = "count"
                 \/ fail_page \in 1..get_page_count(catalog.result_size) )
                => (csv' = csv /\ result' \in {"failed", "crashed"}) ]_vars

\* A check ended on a failed listing request while the store held an unmarked
\* row that the site no longer lists
C8_Witness ==
    /\ op = "check"
    /\ result = "crashed"
    /\ \E i \in 1..Len(DataRows(csv)) :
          /\ DataRows(csv)[i].removed = ""
          /\ hash_id_from_link(DataRows(csv)[i].link) \notin Listed

----------------------------------------------------------------------------
(* C9 *)

\* C9: after a successful check the store has the same rows in the same
\* order; a row whose hash_id is not live and whose detail request fails has
\* the removal mark, and a row whose hash_id is live is unchanged.
C9_StaleRowsMarked ==
    [][ \A fetch_fault \in FetchFaults, fail_page \in 0..MaxPages,
           answering \in SUBSET HashIds, fail_at \in 1..(2 * MaxId + 3) :
            (CheckItems(fetch_fault, fail_page, answering, fail_at) /\ result' = "ok")
                => LET live == scrape_hash_ids(catalog, fetch_fault, fail_page).ids
                       old == DataRows(csv)
                       new == DataRows(csv')
                   IN /\ Len(new) = Len(old)
                      /\ \A i \in 1..Len(old) :
                            /\ new[i].link = old[i].link
                            /\ hash_id_from_link(old[i].link) \in live
                                  => new[i] = old[i]
                            /\ ~check_item(hash_id_from_link(old[i].link), live,
                                           answering)
                                  => new[i].removed = REMOVED_MARK ]_vars

----------------------------------------------------------------------------
(* C10 *)

\* C10: after a successful clean_csv the store holds exactly the rows that
\* did not carry the removal mark, in their order, and no marked row.
C10_MarkedRowsDropped ==
    [][ \A fail_at \in 1..(2 * MaxId + 3) :
            (CleanCsv(fail_at) /\ result' = "ok")
                => DataRows(csv') = drop_removed(DataRows(csv)) ]_vars

----------------------------------------------------------------------------
(* C11 *)

\* C11: when writing a row fails while check_items or clean_csv rewrites the
\* store, the pass fails and the store file is what it was before the pass.
C11_FailedRewriteKeepsStore ==
    [][ /\ \A fetch_fault \in FetchFaults, fail_page \in 0..MaxPages,
              answering \in SUBSET HashIds, fail_at \in 1..(2 * MaxId + 3) :
              ( /\ CheckItems(fetch_fault, fail_page, answering, fail_at)
                /\ scrape_hash_ids(catalog, fetch_fault, fail_page).status = "ok"
                /\ result' = "failed" )
                  => csv' = csv
        /\ \A fail_at \in 1..(2 * MaxId + 3) :
              (CleanCsv(fail_at) /\ result' = "failed") => csv' = csv ]_vars

----------------------------------------------------------------------------
(* C12 *)

\* The rows of a store file that do not carry the removal mark
LiveRows(file) == SelectSeq(DataRows(file), LAMBDA row : row.removed # REMOVED_MARK)

\* C12: after clean_files without a failed deletion, every raw document and
\* every image folder left belongs to a row without removal mark, and every
\* row without removal mark has its raw document and its image folder.
C12_SweepClosure ==
    [][ CleanFiles({}, {})
            => /\ json_files' \subseteq get_hash_ids(LiveRows(csv'))
               /\ image_dirs' \subseteq get_image_folders(LiveRows(csv'))
               /\ get_hash_ids(LiveRows(csv')) \subseteq json_files'
               /\ get_image_folders(LiveRows(csv')) \subseteq image_dirs' ]_vars

----------------------------------------------------------------------------
(* C13 *)

\* A step at which scrape_items meets a fatal condition: the page count
\* cannot be obtained, the identity rotation fails, or a listing page cannot
\* be fetched
FatalStep ==
    \/ \E fault \in {"tor", "count"} : ScrapeStart(fault)
    \/ \E fault \in {"tor", "fetch"} : ScrapePage(fault)

\* C13: a fatal condition ends the run in failure without any write to the
\* store, the checkpoint, the raw documents or the images; when the run had
\* processed pages before, the checkpoint names the last of them.
C13_FatalKeepsCommitted ==
    [][ FatalStep
            => /\ pc' = "idle"
               /\ result' \in {"failed", "crashed"}
               /\ disk' = disk
               /\ (pc = "paging" /\ page > first_page)
                     => /\ Stored(last_page_file')
                        /\ StoredPage(last_page_file') = page - 1 ]_vars

----------------------------------------------------------------------------
(* C14 *)

\* C14: for an unknown item whose document cannot be transformed, the raw
\* document and the image folder are written and no row is appended; no step
\* of build, check or cleanup deletes a raw document or an image folder; a
\* clean_files pass without failed deletion deletes those that have no row.
C14_MalformedItemOrphans ==
    [][ /\ (ScrapeItem("transform") /\ estates[k] \notin hash_ids)
            => /\ estates[k] \in json_files'
               /\ get_image_folder(get_item_link(estates[k])) \in image_dirs'
               /\ csv' = csv
               /\ hash_ids' = hash_ids
               /\ pc' = "items"
        /\ op' # "vacuum"
            => (json_files \subseteq json_files' /\ image_dirs \subseteq image_dirs')
        /\ CleanFiles({}, {})
            => \A h \in HashIds \ RowIds(csv) :
                  /\ h \notin json_files'
                  /\ get_image_folder(get_item_link(h)) \notin image_dirs' ]_vars

\* No row was ever appended, the raw document and the image folder of a
\* malformed item are on disk, and a check pass has run since
C14_Witness ==
    /\ op = "check"
    /\ result = "ok"
    /\ ~csv.exists
    /\ \E h \in HashIds :
          /\ h \in json_files
          /\ get_image_folder(get_item_link(h)) \in image_dirs

----------------------------------------------------------------------------
(* C15 *)

\* The ids listed on the pages from..to of the site
ListedOn(from, to) ==
    {catalog.estates[p][i] : <<p, i>> \in
        {<<q, j>> \in (from..to) \X (1..MaxPerPage) : j <= Len(catalog.estates[q])}}

\* C15: over a site that does not change, when a run completes, every listed
\* item that still has no row is listed on a page the run has visited: the
\* run has made a detail request for every item that failed before.
C15_FailedItemsRetried ==
    [][ ScrapeDone
            => \A h \in ListedOn(1, page_count) :
                  h \notin RowIds(csv) => h \in ListedOn(first_page, page_count) ]_vars

----------------------------------------------------------------------------
(* C16 *)

\* C16: the checkpoint is set to p only at the end of the item loop of page
\* p; an interrupt leaves the checkpoint as it is, and when the run had
\* processed page p - 1 before being interrupted in page p the checkpoint is
\* p - 1, so that the next run without override starts at p; a known item of
\* the page is skipped without any write.
C16_CommitAfterPage ==
    [][ /\ (last_page_file' # last_page_file /\ Stored(last_page_file'))
            => (pc = "items" /\ k > Len(estates)
                /\ StoredPage(last_page_file') = page)
        /\ Interrupt
            => /\ last_page_file' = last_page_file
               /\ (InRun /\ page <= page_count /\ page > first_page)
                     => FirstPage(None, last_page_file', TRUE) = page
        /\ (ScrapeItem("none") /\ estates[k] \in hash_ids)
            => (disk' = disk /\ hash_ids' = hash_ids /\ k' = k + 1) ]_vars

----------------------------------------------------------------------------
(* C17 *)

\* C17: when save_last_page fails after a page, the run ends in failure
\* instead of going on to the next page.
C17_FailedCheckpointEndsRun ==
    [][ \A fault \in WriteFaults \ {"none"} :
            SaveLastPage(fault) => (pc' = "idle" /\ result' = "failed") ]_vars

----------------------------------------------------------------------------
(* C18 *)

\* C18: when load_items fails before it has read every row, check_items and
\* clean_csv leave the store file as it is, and scrape_items ends instead of
\* going on with the index of the rows read.
C18_FailedLoadKeepsStore ==
    [][ /\ \A n \in 0..MaxRows, answering \in SUBSET HashIds :
              CheckItemsPartial(n, answering) => csv' = csv
        /\ \A n \in 0..MaxRows :
              CleanCsvPartial(n) => csv' = csv
        /\ \A n \in 0..MaxRows :
              ScrapeStartPartial(n) => (pc' = "idle" /\ csv' = csv) ]_vars

----------------------------------------------------------------------------
(* C19 *)

\* n is ceil(result_size / 60)
IsCeil(n, result_size) == 60 * n >= result_size /\ 60 * (n - 1) < result_size

\* C19: the page count is ceil(result_size / 60); the run requests the
\* listing pages first_page, first_page + 1, ..., page_count in this order,
\* each once, none below first_page; it ends with success after page_count,
\* at once when first_page is beyond page_count.
C19_PagesInOrder ==
    [][ /\ (pc = "scrape" /\ pc' = "paging")
            => /\ IsCeil(page_count', catalog.result_size)
               /\ first_page' = FirstPage(from_page, last_page_file, TRUE)
                     \/ (from_page = None /\ first_page' = 1)
               /\ page' = first_page'
        /\ (pc = "paging" /\ pc' = "items")
            => /\ page' = page
               /\ first_page <= page /\ page <= page_count
               /\ estates' = get_category_json(catalog, page)
        /\ (pc = "items" /\ pc' = "items") => page' = page
        /\ (pc = "items" /\ pc' = "paging") => page' = page + 1
        /\ (InRun /\ InRun') => (first_page' = first_page /\ page_count' = page_count)
        /\ (pc = "paging" /\ page > page_count)
            => (pc' = "idle" /\ result' \in {"ok", "interrupted"} /\ disk' = disk)
        /\ ScrapeDone
            => page = (IF first_page > page_count THEN first_page ELSE page_count + 1)
      ]_vars

\* A run resumed at page 2 has requested listing page 2, the last one
C19_Witness ==
    /\ pc = "items"
    /\ from_page = None
    /\ first_page = 2
    /\ page = 2
    /\ page_count = 2

----------------------------------------------------------------------------
(* C20 *)

\* C20: restart_tor is called once before the page count is looked up, not
\* again before the first page of the run, and once before the listing
\* request of every later page; when it fails the run ends in failure with
\* nothing requested or written for that page.
C20_RotationOrder ==
    [][ /\ (pc' = "paging" /\ page' = first_page') => tor_restarts' = 1
        /\ (pc' = "items") => tor_restarts' = 1 + (page' - first_page')
        /\ (pc' = "paging" /\ page' > first_page')
              => tor_restarts' = page' - first_page'
        /\ (ScrapeStart("tor") \/ ScrapePage("tor"))
              => /\ pc' = "idle"
                 /\ result' = "failed"
                 /\ estates' = <<>>
                 /\ disk' = disk ]_vars

\* The run is in its second page: restart_tor was called before the page
\* count and before this page
C20_Witness ==
    /\ pc = "items"
    /\ page = first_page + 1
    /\ tor_restarts = 2

----------------------------------------------------------------------------
(* C21 *)

\* The image folders of the model
ImageFolders == {get_image_folder(get_item_link(h)) : h \in HashIds}

\* C21: in clean_files a deletion that fails stops nothing: every other raw
\* document without a loaded row and every other image folder without a
\* loaded row is deleted, whatever failed in the sweep of the raw documents.
C21_BestEffortSweep ==
    [][ \A json_fail \in SUBSET HashIds, dir_fail \in SUBSET ImageFolders :
            CleanFiles(json_fail, dir_fail)
                => /\ \A h \in json_files \ get_hash_ids(load_items(csv)) :
                          h \notin json_fail => h \notin json_files'
                   /\ \A d \in image_dirs \ get_image_folders(load_items(csv)) :
                          d \notin dir_fail => d \notin image_dirs'
                   /\ result' = "ok" ]_vars

\* After a sweep a raw document without a row is left (its deletion failed)
\* and its image folder is gone (the sweep of the folders took place)
C21_Witness ==
    /\ op = "vacuum"
    /\ \E h \in json_files :
          /\ h \notin RowIds(csv)
          /\ get_image_folder(get_item_link(h)) \notin image_dirs

----------------------------------------------------------------------------
(* C22 *)

\* C22: for a listed item whose hash_id is in the index when the loop
\* reaches it, no detail is requested and nothing is written: the raw
\* documents, the image folders, the store and the index are what they were.
C22_KnownItemsSkipped ==
    [][ ( /\ pc = "items"
          /\ k <= Len(estates)
          /\ estates[k] \in hash_ids
          /\ ~Interrupt )
            => /\ pc' = "items"
               /\ k' = k + 1
               /\ last_request' = None
               /\ disk' = disk
               /\ hash_ids' = hash_ids
               /\ added_item_count' = added_item_count ]_vars

\* The loop has just gone past an item of the index without a request
C22_Witness ==
    /\ pc = "items"
    /\ k > 1
    /\ estates[k - 1] \in hash_ids
    /\ last_request = None

----------------------------------------------------------------------------
(* C23 *)

\* C23 as stated: after build --restart has cleared the progress, the
\* checkpoint and the store are absent and the backup holds exactly what the
\* store held before.
C23_BackupIsPreviousStore ==
    [][ \A update \in BOOLEAN, fault \in BuildFaults :
            (MainBuild(TRUE, update, fault) /\ pc' = "scrape")
                => /\ last_page_file' = FileAbsent
                   /\ csv' = NoFile
                   /\ backup' = csv ]_vars

\* C23 amended: after build --restart has cleared the progress, the
\* checkpoint and the store are absent and the backup is the store as it was
\* when there was one (the older backup is kept otherwise); when removing the old backup or renaming
\* the store fails the run does not start; a run that starts without store
\* and checkpoint starts at page 1 with an empty index.
C23_RestartClearsProgress ==
    [][ /\ \A update \in BOOLEAN, fault \in BuildFaults :
              (MainBuild(TRUE, update, fault) /\ pc' = "scrape")
                  => /\ last_page_file' = FileAbsent
                     /\ csv' = NoFile
                     /\ backup' = (IF csv.exists THEN csv ELSE backup)
        /\ \A update \in BOOLEAN :
              ( \/ MainBuild(TRUE, update, "rename") /\ csv.exists
                \/ MainBuild(TRUE, update, "rm_backup") /\ csv.exists /\ backup.exists )
                  => (pc' = "idle" /\ result' = "failed" /\ csv' = csv)
        /\ (pc = "scrape" /\ pc' = "paging" /\ ~csv.exists
               /\ last_page_file = FileAbsent)
              => (first_page' = 1 /\ page' = 1 /\ hash_ids' = {}) ]_vars

\* A run started by build --restart over an existing store is at its first
\* page: the store is in the backup, the index is empty
C23_Witness ==
    /\ pc = "paging"
    /\ backup.exists
    /\ Len(DataRows(backup)) >= 1
    /\ ~csv.exists
    /\ last_page_file = FileAbsent
    /\ first_page = 1
    /\ page = 1
    /\ hash_ids = {}

----------------------------------------------------------------------------
(* the checkpoint functions on their own *)

CheckpointChars == {"0", "1", "9", "x"}

CheckpointTexts ==
    {<<>>} \cup {<<a>> : a \in CheckpointChars}
           \cup {<<a, b>> : a \in CheckpointChars, b \in CheckpointChars}

CheckpointFiles ==
    {FileAbsent} \cup {[exists |-> TRUE, text |-> t] : t \in CheckpointTexts}

\* a page to save and a checkpoint file as some earlier run or editor left it
CheckpointInit ==
    /\ catalog = CHOOSE c \in Catalogs : TRUE
    /\ csv = NoFile
    /\ backup = NoFile
    /\ last_page_file \in CheckpointFiles
    /\ json_files = {}
    /\ image_dirs = {}
    /\ pc = "checkpoint"
    /\ op = "none"
    /\ result = "none"
    /\ from_page = None
    /\ hash_ids = {}
    /\ page_count = None
    /\ first_page = 0
    /\ page \in 0..MaxStoredPage
    /\ estates = <<>>
    /\ k = 0
    /\ added_item_count = 0
    /\ tor_restarts = 0
    /\ last_request = None
    /\ runs_done = None

\* save_last_page(page)
SaveCheckpoint(fault) ==
    /\ pc = "checkpoint"
    /\ last_page_file' = save_last_page(last_page_file, page, fault)
    /\ result' = IF fault = "none" THEN "saved" ELSE "unsaved"
    /\ pc' = "checkpoint_saved"
    /\ UNCHANGED <<catalog, csv, backup, json_files, image_dirs, op, locals,
                   runs_done>>

\* first_page = load_last_page() + 1
LoadCheckpoint(read_ok) ==
    /\ pc \in {"checkpoint", "checkpoint_saved"}
    /\ read_ok \/ last_page_file.exists
    /\ first_page' = FirstPage(None, last_page_file, read_ok)
    /\ pc' = "checkpoint_loaded"
    /\ UNCHANGED <<catalog, disk, op, result, from_page, hash_ids, page_count,
                   page, estates, k, added_item_count, tor_restarts,
                   last_request, runs_done>>

CheckpointNext ==
    \/ \E fault \in WriteFaults : SaveCheckpoint(fault)
    \/ \E read_ok \in BOOLEAN : LoadCheckpoint(read_ok)

SpecCheckpoint == CheckpointInit /\ [][CheckpointNext]_vars

\* C24: loading the checkpoint never fails: it gives 0 when the file is
\* absent, when it cannot be read and when its text is empty or holds a
\* character that is not a digit; after a successful save of page p the load
\* gives p.
C24_LoadReturnsSaved ==
    [][ /\ \A read_ok \in BOOLEAN :
            LoadCheckpoint(read_ok)
                => /\ pc' = "checkpoint_loaded"
                   /\ first_page' >= 1
                   /\ ( \/ ~last_page_file.exists
                        \/ ~read_ok
                        \/ last_page_file.text = <<>>
                        \/ \E i \in 1..Len(last_page_file.text) :
                                last_page_file.text[i] = "x" )
                         => first_page' = 0 + 1
                   /\ (result = "saved" /\ read_ok) => first_page' = page + 1
        /\ SaveCheckpoint("none")
            => load_last_page(last_page_file', TRUE) = page ]_vars

\* A page of three digits was saved and loaded back
C24_Witness ==
    /\ pc = "checkpoint_loaded"
    /\ result = "saved"
    /\ page >= 100
    /\ first_page = page + 1

----------------------------------------------------------------------------
(* C25 *)

\* C25: at every item boundary of a run the in-memory index is the set of
\* the hash_ids of the rows in the store file; no hash_id is in the index
\* without a row in the store.
C25_IndexIsStore ==
    pc = "items" => hash_ids = RowIds(csv)

----------------------------------------------------------------------------
(* C26 *)

\* C26: whatever build, check, cleanup and vacuum commands have run, every
\* row of the store file has its raw document, named by the row's hash_id.
C26_RowHasRawDocument ==
    RowIds(csv) \subseteq json_files

----------------------------------------------------------------------------
(* C27 *)

\* C27: a check_items pass leaves the rows of the store as they are, in
\* number, order and every column but the removal column; it never clears a
\* removal mark: a removal column that changes goes from unmarked to marked.
C27_OnlyMarksChange ==
    [][ \A fetch_fault \in FetchFaults, fail_page \in 0..MaxPages,
           answering \in SUBSET HashIds, fail_at \in 1..(2 * MaxId + 3) :
            CheckItems(fetch_fault, fail_page, answering, fail_at)
                => LET old == DataRows(csv)
                       new == DataRows(csv')
                   IN /\ Len(new) = Len(old)
                      /\ \A i \in 1..Len(old) :
                            /\ i <= Len(new)
                            /\ [new[i] EXCEPT !.removed = old[i].removed] = old[i]
                            /\ new[i].removed # old[i].removed
                                  => new[i].removed = REMOVED_MARK ]_vars

----------------------------------------------------------------------------
(* C28 *)

\* build runs without fault, and vacuum passes in which a deletion or the
\* reading of the store fails, over a site that changes between them
VacuumNext ==
    \/ \E update \in BOOLEAN : MainBuild(FALSE, update, "none")
    \/ ScrapeStart("none")
    \/ ScrapePage("none")
    \/ ScrapeItem("none")
    \/ SaveLastPage("none")
    \/ ScrapeDone
    \/ SweepNext
    \/ \E n \in 0..MaxRows : CleanFilesPartial(n)

SpecVacuum == Init /\ [][VacuumNext \/ SiteNext]_vars

\* C28: clean_files deletes no raw document named by the hash_id of a row
\* of the store file and no image folder named by the link of such a row,
\* marked or not, whether load_items read the whole store or a part of it.
C28_SweepKeepsReferenced ==
    [][ ( \/ \E json_fail \in SUBSET HashIds, dir_fail \in SUBSET ImageFolders :
                CleanFiles(json_fail, dir_fail)
          \/ \E n \in 0..MaxRows : CleanFilesPartial(n) )
            => /\ (json_files \cap RowIds(csv)) \subseteq json_files'
               /\ (image_dirs \cap get_image_folders(DataRows(csv)))
                      \subseteq image_dirs' ]_vars

====
